---- MODULE Spec2Model ----
(***************************************************************************)
(* Website link auditor (links_check.py, settings.py): the batch pipeline  *)
(*   sitemap -> unique pages -> anchors per page -> internal/external      *)
(*   link lists -> unique hrefs -> liveness probes -> broken-link report   *)
(* and its pure functions.                                                 *)
(*                                                                         *)
(* Strings that the code searches with Python's `in` (hrefs, the domain    *)
(* name) are sequences of tokens, and `x in s` is "x is a contiguous       *)
(* subsequence of s".  Python lists are sequences; a LinkRecord            *)
(* [url, href, text] is the tuple <<url, href, text>>, so the code's       *)
(* link[0], link[1], link[2] are link[1], link[2], link[3] here.           *)
(***************************************************************************)
EXTENDS Integers, Sequences, FiniteSets, TLC

----------------------------------------------------------------------------
(* Bounds of the model *)

\* longest sitemap page list the remote site serves (duplicates allowed)
MaxSitemapLen == 2
\* most anchors on one fetched page
MaxAnchors == 2
\* longest argument lists handed to the pure functions
MaxFnAnchors == 3
MaxFnLinks == 3
MaxFnBroken == 2
MaxFnProbes == 3

----------------------------------------------------------------------------
(* Strings *)

\* Python: sub in s, for strings
Contains(sub, s) ==
    \E i \in 0..(Len(s) - Len(sub)) : SubSeq(s, i + 1, i + Len(sub)) = sub

\* Python: x in lst, for a list
InList(x, lst) == \E i \in 1..Len(lst) : lst[i] = x

Http == <<"http">>

\* "example.com"
DomainName == <<"example", ".com">>
\* "https://example.com"
Homepage == <<"http", "s://", "example", ".com">>
\* "https://example.com/a", "https://example.com/b"
PageA == <<"http", "s://", "example", ".com", "/a">>
PageB == <<"http", "s://", "example", ".com", "/b">>
\* "https://dead.example/x": shares a token with the domain, not the domain
HrefDead == <<"http", "s://", "dead.", "example", "/x">>
\* "https://other.com"
HrefOther == <<"http", "s://", "other", ".com">>
\* "https://other.com/?u=example.com": the domain as a query-string value
HrefQuery == <<"http", "s://", "other", ".com", "/?u=", "example", ".com">>
\* "/relative/path"
HrefRel == <<"/relative", "/path">>
\* "example.com/b": the domain without a scheme
HrefNoScheme == <<"example", ".com", "/b">>

Pages == {PageA, PageB}

----------------------------------------------------------------------------
(* Anchors.  has_href: a["href"] succeeds (else KeyError).  is_tag: the     *)
(* anchor is a parsed element, so a.text succeeds; the dictionaries of the  *)
(* docstring have no attribute text (AttributeError).                       *)

Tag(href, text) ==
    [has_href |-> TRUE, href |-> href, is_tag |-> TRUE, text |-> text]
TagNoHref(text) ==
    [has_href |-> FALSE, href |-> <<>>, is_tag |-> TRUE, text |-> text]
Dict(href, text) ==
    [has_href |-> TRUE, href |-> href, is_tag |-> FALSE, text |-> text]

\* anchors a fetched page may hold
PageAnchors ==
    { Tag(PageB, "B"), Tag(HrefDead, "dead"), Tag(HrefRel, "rel") }

\* anchors handed to create_link_lists directly
FnAnchors ==
    { Tag(PageB, "B"), Tag(HrefDead, "dead"), Tag(HrefOther, "other"),
      Tag(HrefQuery, "query"), Tag(HrefRel, "rel"), Tag(HrefNoScheme, "bare"),
      TagNoHref("name"), Dict(PageB, "B"), Dict(HrefOther, "other") }

\* all sequences over S of length at most n
SeqsUpTo(S, n) == UNION { [1..k -> S] : k \in 0..n }

----------------------------------------------------------------------------
(* create_link_lists *)

\* the branch one loop iteration takes: the try body of the for loop
link_branch_no_http_test(domain_name, a) ==
    IF ~a.has_href THEN "discarded"
    ELSE IF Contains(domain_name, a.href)
         THEN (IF a.is_tag THEN "internal" ELSE "discarded")
    ELSE IF ~Contains(Http, a.href) THEN "discarded"
    ELSE IF a.is_tag THEN "external" ELSE "discarded"

link_branch(domain_name, a) ==
    IF ~a.has_href THEN "discarded"                       \* KeyError, except: pass
    ELSE IF Contains(domain_name, a.href) /\ Contains(Http, a.href)
         THEN (IF a.is_tag THEN "internal" ELSE "discarded")  \* a.text may raise
    ELSE IF ~Contains(Http, a.href) THEN "discarded"      \* elif: pass
    ELSE IF a.is_tag THEN "external" ELSE "discarded"     \* a.text may raise

RECURSIVE create_link_lists_loop(_, _, _, _, _, _)
create_link_lists_loop(domain_name, url, page_anchors, i, page_internal_links, page_external_links) ==
    IF i > Len(page_anchors)
    THEN <<page_internal_links, page_external_links>>
    ELSE LET a == page_anchors[i]
             b == link_branch(domain_name, a)
         IN  create_link_lists_loop(domain_name, url, page_anchors, i + 1,
                 IF b = "internal"
                 THEN Append(page_internal_links, <<url, a.href, a.text>>)
                 ELSE page_internal_links,
                 IF b = "external"
                 THEN Append(page_external_links, <<url, a.href, a.text>>)
                 ELSE page_external_links)

\* returns <<page_internal_links, page_external_links>>
create_link_lists(domain_name, url, page_anchors) ==
    create_link_lists_loop(domain_name, url, page_anchors, 1, <<>>, <<>>)

----------------------------------------------------------------------------
(* filter_unique_hrefs *)

unique_hrefs_step_no_test(unique_hrefs, link) == Append(unique_hrefs, link[2])

\* one iteration of the for loop
unique_hrefs_step(unique_hrefs, link) ==
    IF InList(link[2], unique_hrefs) THEN unique_hrefs
    ELSE Append(unique_hrefs, link[2])

RECURSIVE filter_unique_hrefs_loop(_, _, _)
filter_unique_hrefs_loop(link_groups, i, unique_hrefs) ==
    IF i > Len(link_groups) THEN unique_hrefs
    ELSE filter_unique_hrefs_loop(link_groups, i + 1,
                                  unique_hrefs_step(unique_hrefs, link_groups[i]))

filter_unique_hrefs(link_groups) == filter_unique_hrefs_loop(link_groups, 1, <<>>)

----------------------------------------------------------------------------
(* identify_broken_links.  The outcome of one requests.get is a response   *)
(* with an HTTP status code or a raised exception.                         *)

StatusCodes == {200, 404, 500}
Response(s) == [kind |-> "response", status_code |-> s]
Raised == [kind |-> "raised"]
Outcomes == { Response(s) : s \in StatusCodes } \cup {Raised}

probe_step_records_every_status(broken_link_list, link, outcome) ==
    IF outcome.kind = "raised" THEN Append(broken_link_list, <<link, 0>>)
    ELSE Append(broken_link_list, <<link, outcome.status_code>>)

probe_step_drops_errors(broken_link_list, link, outcome) ==
    IF outcome.kind = "raised" THEN broken_link_list
    ELSE IF outcome.status_code # 200
         THEN Append(broken_link_list, <<link, outcome.status_code>>)
    ELSE broken_link_list

\* one iteration of the for loop: the try/except around one request
probe_step(broken_link_list, link, outcome) ==
    IF outcome.kind = "raised" THEN Append(broken_link_list, <<link, 0>>)
    ELSE IF outcome.status_code # 200
         THEN Append(broken_link_list, <<link, outcome.status_code>>)
    ELSE broken_link_list

\* outcomes[i] is the outcome of the i-th request, the one for unique_links[i]
RECURSIVE identify_broken_links_loop(_, _, _, _)
identify_broken_links_loop(unique_links, outcomes, i, broken_link_list) ==
    IF i > Len(unique_links) THEN broken_link_list
    ELSE identify_broken_links_loop(unique_links, outcomes, i + 1,
             probe_step(broken_link_list, unique_links[i], outcomes[i]))

identify_broken_links(unique_links, outcomes) ==
    identify_broken_links_loop(unique_links, outcomes, 1, <<>>)

----------------------------------------------------------------------------
(* match_broken_links.  The loop state is <<broken_link_location,          *)
(* links_to_skip>>.  link[1] in broken_link compares the href with the     *)
(* broken link's href and with its status code; a string never equals an   *)
(* integer, so only the href comparison can succeed.                       *)

match_step_no_href_test(st, link, broken_link) ==
    IF link[2] \notin st[2]
    THEN <<Append(st[1], <<link[1], link[2], link[3], broken_link[2]>>),
           st[2] \cup {link[2]}>>
    ELSE st

match_step_no_skip(st, link, broken_link) ==
    IF link[2] = broken_link[1]
    THEN <<Append(st[1], <<link[1], link[2], link[3], broken_link[2]>>),
           st[2] \cup {link[2]}>>
    ELSE st

\* the body of the inner for loop
match_step(st, link, broken_link) ==
    IF link[2] = broken_link[1] /\ link[2] \notin st[2]
    THEN <<Append(st[1], <<link[1], link[2], link[3], broken_link[2]>>),
           st[2] \cup {link[2]}>>
    ELSE st

RECURSIVE match_inner_loop(_, _, _, _)
match_inner_loop(st, link, broken_links, j) ==
    IF j > Len(broken_links) THEN st
    ELSE match_inner_loop(match_step(st, link, broken_links[j]),
                          link, broken_links, j + 1)

RECURSIVE match_outer_loop(_, _, _, _)
match_outer_loop(st, all_website_links, broken_links, i) ==
    IF i > Len(all_website_links) THEN st
    ELSE match_outer_loop(
             match_inner_loop(st, all_website_links[i], broken_links, 1),
             all_website_links, broken_links, i + 1)

\* the rows of the returned DataFrame, in order
match_broken_links(broken_links, all_website_links) ==
    match_outer_loop(<<<<>>, {}>>, all_website_links, broken_links, 1)[1]

----------------------------------------------------------------------------
(* get_all_links: url_map is the dictionary map_anchors_to_url returned,   *)
(* as the sequence of its <<url, anchors>> items in insertion order.       *)

RECURSIVE get_all_links_loop(_, _, _, _, _)
get_all_links_loop(domain_name, url_anchor_maps, i, all_internal_links, all_external_links) ==
    IF i > Len(url_anchor_maps)
    THEN <<all_internal_links, all_external_links>>
    ELSE LET lists == create_link_lists(domain_name, url_anchor_maps[i][1],
                                        url_anchor_maps[i][2])
         IN  get_all_links_loop(domain_name, url_anchor_maps, i + 1,
                                all_internal_links \o lists[1],
                                all_external_links \o lists[2])

combine_link_lists_internal_also_external(domain_name, url_anchor_maps) ==
    LET lists == get_all_links_loop(domain_name, url_anchor_maps, 1, <<>>, <<>>)
    IN  <<lists[1], lists[2] \o lists[1]>>

\* the loop of get_all_links over the harvested map
combine_link_lists(domain_name, url_anchor_maps) ==
    get_all_links_loop(domain_name, url_anchor_maps, 1, <<>>, <<>>)

----------------------------------------------------------------------------
(* State *)

VARIABLES
    argv,            \* sys.argv of the process
    pc,              \* position of the process in the script
    exit_status,     \* exit status of the process once it called sys.exit
    exit_message,    \* what sys.exit printed
    remote_sitemap,  \* the remote site: the page list of its sitemap
    remote_content,  \* the remote site: what a GET of each page gives
    remote_health,   \* the remote site: what a GET of each href gives
    requests_log,    \* network requests the process issued, in order
    filtered_pages,  \* __main__: filtered_pages, a set
    url_map,         \* map_anchors_to_url: url_map
    internal,        \* __main__: internal
    external,        \* __main__: external
    hrefs,           \* __main__: hrefs
    probe_count,     \* identify_broken_links: count
    b_links,         \* identify_broken_links: broken_link_list, then b_links
    pd_links,        \* __main__: the rows of pd_links
    run,             \* which run of the script against the site this is
    first_report,    \* the rows the first run reported
    fn_call,         \* a direct call of one function: name, arguments, result
    lc_pc,           \* link_checker.get_broken_links: position of the caller
    internal_links,  \* get_broken_links: internal_links
    futures,         \* get_broken_links: the calls of _validate_url in the pool
    lc_broken_links, \* get_broken_links: broken_links, shared by the workers
    lc_returned,     \* get_broken_links: the list as it was when returned
    external_links_filtered,  \* streamlit_app: external_links_filtered
    external_probe_count,     \* streamlit_app: count of the second identify_broken_links
    external_broken_links,    \* streamlit_app: external_broken_links
    data_external             \* streamlit_app: the rows of the second data

vars == <<argv, pc, exit_status, exit_message, remote_sitemap, remote_content,
          remote_health, requests_log, filtered_pages, url_map, internal,
          external, hrefs, probe_count, b_links, pd_links, run, first_report,
          fn_call, lc_pc, internal_links, futures, lc_broken_links, lc_returned,
          external_links_filtered, external_probe_count, external_broken_links,
          data_external>>

link_checker_vars == <<lc_pc, internal_links, futures, lc_broken_links, lc_returned>>
dashboard_vars == <<external_links_filtered, external_probe_count,
                    external_broken_links, data_external>>

remote_vars == <<remote_sitemap, remote_content, remote_health>>
process_vars == <<filtered_pages, url_map, internal, external, hrefs,
                  probe_count, b_links, pd_links>>

Range(s) == { s[i] : i \in 1..Len(s) }

\* the remote site answers a request the first time it is asked and gives the
\* same answer from then on
Unknown == [known |-> FALSE]
Known(v) == [known |-> TRUE, value |-> v]
Answers(slot, choices) == IF slot.known THEN {slot.value} ELSE choices

FetchError == [ok |-> FALSE, anchors |-> <<>>]
Fetched(anchors) == [ok |-> TRUE, anchors |-> anchors]

Hrefs == { a.href : a \in PageAnchors }

DOMAIN_NAME == argv[2]
WEBSITE_URL == argv[3]

ProcessStart ==
    /\ filtered_pages = {}
    /\ url_map = <<>>
    /\ internal = <<>>
    /\ external = <<>>
    /\ hrefs = <<>>
    /\ probe_count = 0
    /\ b_links = <<>>
    /\ pd_links = <<>>
    /\ requests_log = <<>>
    /\ exit_status = 0
    /\ exit_message = ""

LinkCheckerIdle ==
    /\ lc_pc = "idle"
    /\ internal_links = <<>>
    /\ futures = <<>>
    /\ lc_broken_links = <<>>
    /\ lc_returned = <<>>

DashboardIdle ==
    /\ external_links_filtered = <<>>
    /\ external_probe_count = 0
    /\ external_broken_links = <<>>
    /\ data_external = <<>>

OtherProgramsIdle == LinkCheckerIdle /\ DashboardIdle

Init ==
    /\ argv \in { <<"links_check.py">>, <<"links_check.py", DomainName>>,
                  <<"links_check.py", DomainName, Homepage>> }
    /\ pc = "start"
    /\ remote_sitemap = Unknown
    /\ remote_content = [p \in Pages |-> Unknown]
    /\ remote_health = [h \in Hrefs |-> Unknown]
    /\ ProcessStart
    /\ run = 1
    /\ first_report = <<>>
    /\ fn_call = [name |-> "none"]
    /\ OtherProgramsIdle

----------------------------------------------------------------------------
(* The script *)

\* import settings (and the same test at the top of __main__)
argv_missing_at_most_one(args) == Len(args) < 2

argv_missing(args) == Len(args) < 3

LoadSettings ==
    /\ pc = "start"
    /\ IF argv_missing(argv)
       THEN /\ pc' = "exit"
            /\ exit_status' = 1
            /\ exit_message' = "ERROR: please provide both the DOMAIN NAME and the FULL WEBSITE URL"
       ELSE /\ pc' = "filter_unique_urls"
            /\ UNCHANGED <<exit_status, exit_message>>
    /\ UNCHANGED <<argv, remote_vars, requests_log, process_vars, run,
                   first_report, fn_call,
                   link_checker_vars, dashboard_vars>>

\* filtered_pages = filter_unique_urls(WEBSITE_URL)
FilterUniqueUrls ==
    /\ pc = "filter_unique_urls"
    /\ \E url_raw_list \in Answers(remote_sitemap, SeqsUpTo(Pages, MaxSitemapLen)) :
          /\ remote_sitemap' = Known(url_raw_list)
          /\ filtered_pages' = Range(url_raw_list)
    /\ requests_log' = Append(requests_log, <<"sitemap", WEBSITE_URL>>)
    /\ pc' = "map_anchors_to_url"
    /\ UNCHANGED <<argv, exit_status, exit_message, remote_content,
                   remote_health, url_map, internal, external, hrefs,
                   probe_count, b_links, pd_links, run, first_report, fn_call,
                   link_checker_vars, dashboard_vars>>

Harvested == { url_map[i][1] : i \in 1..Len(url_map) }

\* what one request of the loop leaves: <<url_map, pc>>.  A request that raises
\* is not caught: the exception leaves map_anchors_to_url, get_all_links and
\* the script, and the map built so far is lost with it.
fetch_step_skips_failed_page(map, url, got) ==
    IF got.ok THEN <<Append(map, <<url, got.anchors>>), "map_anchors_to_url">>
    ELSE <<Append(map, <<url, <<>>>>), "map_anchors_to_url">>

fetch_step(map, url, got) ==
    IF got.ok THEN <<Append(map, <<url, got.anchors>>), "map_anchors_to_url">>
    ELSE <<<<>>, "crashed">>

\* one iteration of the loop of map_anchors_to_url; the set is iterated in an
\* arbitrary order
FetchPage ==
    /\ pc = "map_anchors_to_url"
    /\ \E url \in filtered_pages \ Harvested :
       \E got \in Answers(remote_content[url],
                          {FetchError} \cup
                          { Fetched(s) : s \in SeqsUpTo(PageAnchors, MaxAnchors) }) :
          /\ remote_content' = [remote_content EXCEPT ![url] = Known(got)]
          /\ requests_log' = Append(requests_log, <<"page", url>>)
          /\ url_map' = fetch_step(url_map, url, got)[1]
          /\ pc' = fetch_step(url_map, url, got)[2]
    /\ UNCHANGED <<argv, exit_status, exit_message, remote_sitemap,
                   remote_health, filtered_pages, internal, external, hrefs,
                   probe_count, b_links, pd_links, run, first_report, fn_call,
                   link_checker_vars, dashboard_vars>>

\* map_anchors_to_url returns; the rest of get_all_links
GetAllLinks ==
    /\ pc = "map_anchors_to_url"
    /\ filtered_pages = Harvested
    /\ LET lists == combine_link_lists(DOMAIN_NAME, url_map)
       IN  /\ internal' = lists[1]
           /\ external' = lists[2]
    /\ pc' = "filter_unique_hrefs"
    /\ UNCHANGED <<argv, exit_status, exit_message, remote_vars, requests_log,
                   filtered_pages, url_map, hrefs, probe_count, b_links,
                   pd_links, run, first_report, fn_call,
                   link_checker_vars, dashboard_vars>>

\* hrefs = filter_unique_hrefs(internal + external)
FilterUniqueHrefs ==
    /\ pc = "filter_unique_hrefs"
    /\ hrefs' = filter_unique_hrefs(internal \o external)
    /\ pc' = "identify_broken_links"
    /\ UNCHANGED <<argv, exit_status, exit_message, remote_vars, requests_log,
                   filtered_pages, url_map, internal, external, probe_count,
                   b_links, pd_links, run, first_report, fn_call,
                   link_checker_vars, dashboard_vars>>

\* how many links the loop of identify_broken_links has gone past after the
\* request for link number count + 1 of total: the for loop moves to the next
\* link whatever the outcome was
next_probe_stops_at_error(count, total, outcome) ==
    IF outcome.kind = "raised" THEN total ELSE count + 1

next_probe(count, total, outcome) == count + 1

\* one iteration of the loop of identify_broken_links
ProbeLink ==
    /\ pc = "identify_broken_links"
    /\ probe_count < Len(hrefs)
    /\ LET link == hrefs[probe_count + 1]
       IN  \E outcome \in Answers(remote_health[link], Outcomes) :
              /\ remote_health' = [remote_health EXCEPT ![link] = Known(outcome)]
              /\ b_links' = probe_step(b_links, link, outcome)
              /\ requests_log' = Append(requests_log, <<"probe", link>>)
              /\ probe_count' = next_probe(probe_count, Len(hrefs), outcome)
    /\ UNCHANGED <<argv, pc, exit_status, exit_message, remote_sitemap,
                   remote_content, filtered_pages, url_map, internal, external,
                   hrefs, pd_links, run, first_report, fn_call,
                   link_checker_vars, dashboard_vars>>

\* identify_broken_links returns; pd_links = match_broken_links(...)
MatchBrokenLinks ==
    /\ pc = "identify_broken_links"
    /\ probe_count = Len(hrefs)
    /\ pd_links' = match_broken_links(b_links, internal \o external)
    /\ pc' = "done"
    /\ UNCHANGED <<argv, exit_status, exit_message, remote_vars, requests_log,
                   filtered_pages, url_map, internal, external, hrefs,
                   probe_count, b_links, run, first_report, fn_call,
                   link_checker_vars, dashboard_vars>>

Next ==
    \/ LoadSettings
    \/ FilterUniqueUrls
    \/ FetchPage
    \/ GetAllLinks
    \/ FilterUniqueHrefs
    \/ ProbeLink
    \/ MatchBrokenLinks

Spec == Init /\ [][Next]_vars

\* a run with both arguments against a site whose sitemap lists the two pages
InitProbes ==
    /\ argv = <<"links_check.py", DomainName, Homepage>>
    /\ pc = "start"
    /\ remote_sitemap = Known(<<PageA, PageB>>)
    /\ remote_content = [p \in Pages |-> Unknown]
    /\ remote_health = [h \in Hrefs |-> Unknown]
    /\ ProcessStart
    /\ run = 1
    /\ first_report = <<>>
    /\ fn_call = [name |-> "none"]
    /\ OtherProgramsIdle

\* that run when every request of identify_broken_links returns or raises: the
\* loop, and the return to __main__ after it, are not held up for ever
SpecProbesEnd ==
    InitProbes /\ [][Next]_vars /\ WF_vars(ProbeLink) /\ WF_vars(MatchBrokenLinks)

----------------------------------------------------------------------------
(* A second run of the script against the same remote site: a new process, *)
(* the same arguments, the answers of the site unchanged.                  *)

Rerun ==
    /\ pc = "done"
    /\ run = 1
    /\ run' = 2
    /\ first_report' = pd_links
    /\ pc' = "start"
    /\ filtered_pages' = {}
    /\ url_map' = <<>>
    /\ internal' = <<>>
    /\ external' = <<>>
    /\ hrefs' = <<>>
    /\ probe_count' = 0
    /\ b_links' = <<>>
    /\ pd_links' = <<>>
    /\ requests_log' = <<>>
    /\ exit_status' = 0
    /\ exit_message' = ""
    /\ UNCHANGED <<argv, remote_vars, fn_call, link_checker_vars, dashboard_vars>>

NextRerun == Next \/ Rerun

SpecRerun == Init /\ [][NextRerun]_vars

----------------------------------------------------------------------------
(* Direct calls of the pure functions, on arguments of bounded size.       *)

FnDomains == { DomainName, <<"other", ".com">> }

FnLinkRecords ==
    { <<PageA, HrefDead, "t1">>, <<PageB, HrefDead, "t2">>,
      <<PageA, HrefDead, "t2">>, <<PageB, HrefOther, "t3">> }

\* HrefQuery occurs in no record of FnLinkRecords
FnBrokenResults ==
    { <<HrefDead, 404>>, <<HrefDead, 500>>, <<HrefOther, 0>>, <<HrefQuery, 404>> }

FnHrefs == { HrefDead, HrefOther }

InitFn ==
    /\ argv = <<"links_check.py", DomainName, Homepage>>
    /\ pc = "import"
    /\ remote_sitemap = Unknown
    /\ remote_content = [p \in Pages |-> Unknown]
    /\ remote_health = [h \in Hrefs |-> Unknown]
    /\ ProcessStart
    /\ run = 1
    /\ first_report = <<>>
    /\ fn_call = [name |-> "none"]
    /\ OtherProgramsIdle

FnUnchanged ==
    UNCHANGED <<argv, pc, exit_status, exit_message, remote_vars, requests_log,
                process_vars, run, first_report, link_checker_vars,
                dashboard_vars>>

CallCreateLinkLists ==
    /\ fn_call.name = "none"
    /\ \E domain_name \in FnDomains, url \in Pages,
          page_anchors \in SeqsUpTo(FnAnchors, MaxFnAnchors) :
          fn_call' = [name |-> "create_link_lists",
                      args |-> <<domain_name, url, page_anchors>>,
                      result |-> create_link_lists(domain_name, url, page_anchors)]
    /\ FnUnchanged

CallFilterUniqueHrefs ==
    /\ fn_call.name = "none"
    /\ \E link_groups \in SeqsUpTo(FnLinkRecords, MaxFnLinks) :
          fn_call' = [name |-> "filter_unique_hrefs",
                      args |-> <<link_groups>>,
                      result |-> filter_unique_hrefs(link_groups)]
    /\ FnUnchanged

\* args[2] are the outcomes of the requests the call issued, in order
CallIdentifyBrokenLinks ==
    /\ fn_call.name = "none"
    /\ \E unique_links \in SeqsUpTo(FnHrefs, MaxFnProbes) :
       \E outcomes \in [1..Len(unique_links) -> Outcomes] :
          fn_call' = [name |-> "identify_broken_links",
                      args |-> <<unique_links, outcomes>>,
                      result |-> identify_broken_links(unique_links, outcomes)]
    /\ FnUnchanged

CallMatchBrokenLinks ==
    /\ fn_call.name = "none"
    /\ \E broken_links \in SeqsUpTo(FnBrokenResults, MaxFnBroken),
          all_website_links \in SeqsUpTo(FnLinkRecords, MaxFnLinks) :
          fn_call' = [name |-> "match_broken_links",
                      args |-> <<broken_links, all_website_links>>,
                      result |-> match_broken_links(broken_links, all_website_links)]
    /\ FnUnchanged

NextFn ==
    \/ CallCreateLinkLists
    \/ CallFilterUniqueHrefs
    \/ CallIdentifyBrokenLinks
    \/ CallMatchBrokenLinks

SpecFn == InitFn /\ [][NextFn]_vars

----------------------------------------------------------------------------
(* link_checker.get_broken_links: the worker-pool variant.  The caller     *)
(* fetches one page, lists its internal links and hands one call of        *)
(* _validate_url per link to a pool of at most max_workers threads; the    *)
(* workers append to the one list broken_links.  list.append is a single   *)
(* atomic operation of the interpreter, so an append is one step.          *)

\* most anchors on the page get_broken_links fetches
MaxPoolAnchors == 3

\* ThreadPoolExecutor(max_workers=8)
max_workers == 8

\* f"//{ROOT_DOMAIN}" with ROOT_DOMAIN = "lekoj.com"
RootDomainMark == <<"//", "lekoj", ".com">>
\* "https://lekoj.com/post", "https://lekoj.com/about", "https://blog.lekoj.com"
LcPost == <<"https:", "//", "lekoj", ".com", "/post">>
LcAbout == <<"https:", "//", "lekoj", ".com", "/about">>
LcBlog == <<"https:", "//", "blog.", "lekoj", ".com">>

\* anchors the fetched page may hold
LcAnchors ==
    { Tag(LcPost, "post"), Tag(LcAbout, "about"), Tag(LcBlog, "blog"),
      TagNoHref("top") }

\* link.get("href") is None for an anchor without href, and
\* f"//{ROOT_DOMAIN}" in None raises TypeError
comprehension_raises(anchors) == \E i \in 1..Len(anchors) : ~anchors[i].has_href

\* [link.get("href") for link in soup.find_all("a") if f"//{ROOT_DOMAIN}" in link.get("href")]
internal_links_of(anchors) ==
    LET IsInternal(a) == Contains(RootDomainMark, a.href)
        kept == SelectSeq(anchors, IsInternal)
    IN  [i \in 1..Len(kept) |-> kept[i].href]

\* requests.get(url), BeautifulSoup, the two list comprehensions
LcGetPage ==
    /\ lc_pc = "idle"
    /\ \E got \in {FetchError} \cup
                  { Fetched(a) : a \in SeqsUpTo(LcAnchors, MaxPoolAnchors) } :
          IF got.ok /\ ~comprehension_raises(got.anchors)
          THEN /\ internal_links' = internal_links_of(got.anchors)
               /\ lc_pc' = "parsed"
          ELSE /\ internal_links' = internal_links
               /\ lc_pc' = "raised"
    /\ UNCHANGED <<argv, pc, exit_status, exit_message, remote_vars, requests_log,
                   process_vars, run, first_report, fn_call, futures,
                   lc_broken_links, lc_returned, dashboard_vars>>

\* executor.map submits one call per link, in order; the caller then leaves the
\* with block, which waits for the pool
LcExecutorMap ==
    /\ lc_pc = "parsed"
    /\ futures' = [i \in 1..Len(internal_links) |->
                     [state |-> "pending", outcome |-> Unknown]]
    /\ lc_pc' = "shutdown"
    /\ UNCHANGED <<argv, pc, exit_status, exit_message, remote_vars, requests_log,
                   process_vars, run, first_report, fn_call, internal_links,
                   lc_broken_links, lc_returned, dashboard_vars>>

Running == { j \in 1..Len(futures) : futures[j].state \in {"requesting", "responded"} }

PoolUnchanged ==
    UNCHANGED <<argv, pc, exit_status, exit_message, remote_vars, requests_log,
                process_vars, run, first_report, fn_call, lc_pc, internal_links,
                lc_returned, dashboard_vars>>

\* a worker thread takes the oldest call of the queue and sends its HEAD request
LcWorkerTakes ==
    /\ lc_pc \in {"shutdown", "returned"}
    /\ Cardinality(Running) < max_workers
    /\ \E i \in 1..Len(futures) :
          /\ futures[i].state = "pending"
          /\ \A j \in 1..(i - 1) : futures[j].state # "pending"
          /\ futures' = [futures EXCEPT ![i].state = "requesting"]
    /\ lc_broken_links' = lc_broken_links
    /\ PoolUnchanged

\* r = requests.head(url) returns, or raises: the exception ends the call and
\* stays in its future, which nothing reads
LcHeadReturns ==
    /\ lc_pc \in {"shutdown", "returned"}
    /\ \E i \in 1..Len(futures), outcome \in Outcomes :
          /\ futures[i].state = "requesting"
          /\ futures' = [futures EXCEPT ![i] =
                [state |-> IF outcome.kind = "raised" THEN "finished" ELSE "responded",
                 outcome |-> Known(outcome)]]
    /\ lc_broken_links' = lc_broken_links
    /\ PoolUnchanged

\* if r.status_code == 404: broken_links.append(url)
validate_url(shared, url, outcome) ==
    IF outcome.status_code = 404 THEN Append(shared, url) ELSE shared

LcValidate ==
    /\ lc_pc \in {"shutdown", "returned"}
    /\ \E i \in 1..Len(futures) :
          /\ futures[i].state = "responded"
          /\ lc_broken_links' = validate_url(lc_broken_links, internal_links[i],
                                             futures[i].outcome.value)
          /\ futures' = [futures EXCEPT ![i].state = "finished"]
    /\ PoolUnchanged

\* ThreadPoolExecutor.__exit__: shutdown(wait=True) joins every worker
shutdown_without_wait(calls) == TRUE

all_calls_finished(calls) == \A i \in 1..Len(calls) : calls[i].state = "finished"

\* return broken_links
LcReturn ==
    /\ lc_pc = "shutdown"
    /\ all_calls_finished(futures)
    /\ lc_returned' = lc_broken_links
    /\ lc_pc' = "returned"
    /\ UNCHANGED <<argv, pc, exit_status, exit_message, remote_vars, requests_log,
                   process_vars, run, first_report, fn_call, internal_links,
                   futures, lc_broken_links, dashboard_vars>>

InitPool ==
    /\ argv = <<"link_checker.py">>
    /\ pc = "import"
    /\ remote_sitemap = Unknown
    /\ remote_content = [p \in Pages |-> Unknown]
    /\ remote_health = [h \in Hrefs |-> Unknown]
    /\ ProcessStart
    /\ run = 1
    /\ first_report = <<>>
    /\ fn_call = [name |-> "none"]
    /\ OtherProgramsIdle

NextPool ==
    \/ LcGetPage
    \/ LcExecutorMap
    \/ LcWorkerTakes
    \/ LcHeadReturns
    \/ LcValidate
    \/ LcReturn

SpecPool == InitPool /\ [][NextPool]_vars

----------------------------------------------------------------------------
(* streamlit_app: the dashboard variant.  It calls filter_unique_urls and  *)
(* get_all_links as the script does (argv[2] and argv[3] stand for the     *)
(* two text inputs, settings.DOMAIN_NAME and settings.WEBSITE_URL), then   *)
(* deduplicates, probes and matches the internal and the external list     *)
(* separately.  hrefs, probe_count, b_links and pd_links hold              *)
(* internal_links_filtered, the first loop's count, internal_broken_links  *)
(* and the first data.  A page fetch that raises is caught by the second   *)
(* try block; the third then fails on the undefined names and is caught    *)
(* too, so nothing is probed: pc stays "crashed".                          *)

\* internal_links_filtered, external_links_filtered = filter_unique_hrefs(...)
DashFilterUniqueHrefs ==
    /\ pc = "filter_unique_hrefs"
    /\ hrefs' = filter_unique_hrefs(internal)
    /\ external_links_filtered' = filter_unique_hrefs(external)
    /\ pc' = "identify_internal"
    /\ UNCHANGED <<argv, exit_status, exit_message, remote_vars, requests_log,
                   filtered_pages, url_map, internal, external, probe_count,
                   b_links, pd_links, run, first_report, fn_call,
                   link_checker_vars, external_probe_count,
                   external_broken_links, data_external>>

\* one iteration of the loop of identify_broken_links(internal_links_filtered)
DashProbeInternal ==
    /\ pc = "identify_internal"
    /\ probe_count < Len(hrefs)
    /\ LET link == hrefs[probe_count + 1]
       IN  \E outcome \in Answers(remote_health[link], Outcomes) :
              /\ remote_health' = [remote_health EXCEPT ![link] = Known(outcome)]
              /\ b_links' = probe_step(b_links, link, outcome)
              /\ requests_log' = Append(requests_log, <<"probe", link>>)
              /\ probe_count' = next_probe(probe_count, Len(hrefs), outcome)
    /\ UNCHANGED <<argv, pc, exit_status, exit_message, remote_sitemap,
                   remote_content, filtered_pages, url_map, internal, external,
                   hrefs, pd_links, run, first_report, fn_call,
                   link_checker_vars, dashboard_vars>>

\* data = match_broken_links(internal_broken_links, internal_links)
DashMatchInternal ==
    /\ pc = "identify_internal"
    /\ probe_count = Len(hrefs)
    /\ pd_links' = match_broken_links(b_links, internal)
    /\ pc' = "identify_external"
    /\ UNCHANGED <<argv, exit_status, exit_message, remote_vars, requests_log,
                   filtered_pages, url_map, internal, external, hrefs,
                   probe_count, b_links, run, first_report, fn_call,
                   link_checker_vars, dashboard_vars>>

\* one iteration of the loop of identify_broken_links(external_links_filtered)
DashProbeExternal ==
    /\ pc = "identify_external"
    /\ external_probe_count < Len(external_links_filtered)
    /\ LET link == external_links_filtered[external_probe_count + 1]
       IN  \E outcome \in Answers(remote_health[link], Outcomes) :
              /\ remote_health' = [remote_health EXCEPT ![link] = Known(outcome)]
              /\ external_broken_links' = probe_step(external_broken_links, link, outcome)
              /\ requests_log' = Append(requests_log, <<"probe", link>>)
              /\ external_probe_count' =
                    next_probe(external_probe_count, Len(external_links_filtered), outcome)
    /\ UNCHANGED <<argv, pc, exit_status, exit_message, remote_sitemap,
                   remote_content, process_vars, run, first_report, fn_call,
                   link_checker_vars, external_links_filtered, data_external>>

\* data = match_broken_links(external_broken_links, external_links)
DashMatchExternal ==
    /\ pc = "identify_external"
    /\ external_probe_count = Len(external_links_filtered)
    /\ data_external' = match_broken_links(external_broken_links, external)
    /\ pc' = "shown"
    /\ UNCHANGED <<argv, exit_status, exit_message, remote_vars, requests_log,
                   process_vars, run, first_report, fn_call, link_checker_vars,
                   external_links_filtered, external_probe_count,
                   external_broken_links>>

InitDash ==
    /\ argv = <<"streamlit_app.py", DomainName, Homepage>>
    /\ pc = "filter_unique_urls"
    /\ remote_sitemap = Unknown
    /\ remote_content = [p \in Pages |-> Unknown]
    /\ remote_health = [h \in Hrefs |-> Unknown]
    /\ ProcessStart
    /\ run = 1
    /\ first_report = <<>>
    /\ fn_call = [name |-> "none"]
    /\ OtherProgramsIdle

NextDash ==
    \/ FilterUniqueUrls
    \/ FetchPage
    \/ GetAllLinks
    \/ DashFilterUniqueHrefs
    \/ DashProbeInternal
    \/ DashMatchInternal
    \/ DashProbeExternal
    \/ DashMatchExternal

SpecDash == InitDash /\ [][NextDash]_vars

----------------------------------------------------------------------------
(* Properties *)

\* position of the first element of seq whose k-th component is x
FirstPos(seq, k, x) ==
    CHOOSE i \in 1..Len(seq) :
        /\ seq[i][k] = x
        /\ \A j \in 1..(i - 1) : seq[j][k] # x

\* C1 (create_link_lists): the class of an anchor by the decision order: no
\* href, or an access that raises -> discarded; else domain and "http" in the
\* href -> internal; else no "http" -> discarded; else external.
C1_Class(domain_name, a) ==
    IF ~a.has_href \/ ~a.is_tag THEN "discarded"
    ELSE IF Contains(domain_name, a.href) /\ Contains(Http, a.href) THEN "internal"
    ELSE IF ~Contains(Http, a.href) THEN "discarded"
    ELSE "external"

C1_Records(domain_name, url, page_anchors, class) ==
    LET Is(a) == C1_Class(domain_name, a) = class
        sel == SelectSeq(page_anchors, Is)
    IN  [i \in 1..Len(sel) |-> <<url, sel[i].href, sel[i].text>>]

C2_FirstMatchWins ==
    fn_call.name = "match_broken_links" =>
        LET broken_links == fn_call.args[1]
            links == fn_call.args[2]
            rows == fn_call.result
            matched == { broken_links[j][1] : j \in 1..Len(broken_links) }
                         \cap { links[i][2] : i \in 1..Len(links) }
        IN  \A h \in matched :
                LET at == { k \in 1..Len(rows) : rows[k][2] = h }
                    first == links[FirstPos(links, 2, h)]
                    status == broken_links[FirstPos(broken_links, 1, h)][2]
                IN  /\ Cardinality(at) = 1
                    /\ \A k \in at : rows[k] = <<first[1], h, first[3], status>>

\* records [(p1,x,t1),(p2,x,t2)] with broken result (x,404) gave (p1,x,t1,404) alone
C2_Witness ==
    /\ fn_call.name = "match_broken_links"
    /\ fn_call.args = << <<<<HrefDead, 404>>>>,
                         << <<PageA, HrefDead, "t1">>, <<PageB, HrefDead, "t2">> >> >>
    /\ fn_call.result = << <<PageA, HrefDead, "t1", 404>> >>

\* the anchors a page of the remote site served
ServedAnchors(page) ==
    IF remote_content[page].known /\ remote_content[page].value.ok
    THEN Range(remote_content[page].value.anchors)
    ELSE {}

\* C3: in the pipeline every report row (page, href, text, status) has
\* (href, status) among the broken results with a status other than 200, the
\* status being what the probe of href gave (0 when it raised), and
\* (page, href, text) among the link records, an anchor the page served.
C3_RowsAreBrokenLinksOfTheInventory ==
    \A k \in 1..Len(pd_links) :
        LET row == pd_links[k]
        IN  /\ <<row[2], row[4]>> \in Range(b_links)
            /\ row[4] # 200
            /\ <<row[1], row[2], row[3]>> \in Range(internal \o external)
            /\ Tag(row[2], row[3]) \in ServedAnchors(row[1])
            /\ remote_health[row[2]].known
            /\ remote_health[row[2]].value # Response(200)
            /\ IF remote_health[row[2]].value = Raised
               THEN row[4] = 0
               ELSE row[4] = remote_health[row[2]].value.status_code

\* a finished run that reported a broken link and probed a live one
C3_Witness ==
    /\ pc = "done"
    /\ Len(pd_links) = 1
    /\ \E i \in 1..Len(hrefs) : remote_health[hrefs[i]] = Known(Response(200))
    /\ Len(internal \o external) >= 3

C5_UniqueInFirstSeenOrder ==
    fn_call.name = "filter_unique_hrefs" =>
        LET link_groups == fn_call.args[1]
            unique_hrefs == fn_call.result
            pos(h) == FirstPos(link_groups, 2, h)
        IN  /\ \A i, j \in 1..Len(unique_hrefs) :
                  i # j => unique_hrefs[i] # unique_hrefs[j]
            /\ Range(unique_hrefs) = { link_groups[i][2] : i \in 1..Len(link_groups) }
            /\ \A i, j \in 1..Len(unique_hrefs) :
                  i < j => pos(unique_hrefs[i]) < pos(unique_hrefs[j])

\* hrefs [a, b, a] gave [a, b]
C5_Witness ==
    /\ fn_call.name = "filter_unique_hrefs"
    /\ fn_call.args[1] = << <<PageA, HrefDead, "t1">>, <<PageB, HrefOther, "t3">>,
                            <<PageB, HrefDead, "t2">> >>
    /\ fn_call.result = <<HrefDead, HrefOther>>

\* C6: a second run against the unchanged remote site reports the same set of
\* rows as the first, whatever order each run iterates the page set in.
C6_SecondRunReportsTheSameRows ==
    (run = 2 /\ pc = "done") => Range(pd_links) = Range(first_report)

\* C7: the report of match_broken_links has as many rows as broken_links has
\* entries, for any broken_links and any all_website_links.
C7_OneRowPerBrokenLink ==
    fn_call.name = "match_broken_links" =>
        Len(fn_call.result) = Len(fn_call.args[1])

\* the site of the end-to-end scenario: the sitemap lists /a and /b, /a holds
\* anchors to /b and to https://dead.example/x, /b holds none, and the probe of
\* https://dead.example/x gives 404
C8_ScenarioSite ==
    /\ argv = <<"links_check.py", DomainName, Homepage>>
    /\ remote_sitemap = Known(<<PageA, PageB>>)
    /\ remote_content[PageA] = Known(Fetched(<<Tag(PageB, "B"), Tag(HrefDead, "dead")>>))
    /\ remote_content[PageB] = Known(Fetched(<<>>))
    /\ remote_health[HrefDead] = Known(Response(404))

C8_ScenarioReport == << <<PageA, HrefDead, "dead", 404>> >>

\* C8 as stated: on the scenario site the final report is exactly the row
\* (https://example.com/a, https://dead.example/x, anchor text, 404).
C8_ScenarioGivesOneRow ==
    (pc = "done" /\ C8_ScenarioSite) => pd_links = C8_ScenarioReport

\* C8 amended: on the scenario site, when the probe of https://example.com/b
\* gives 200, the final report is exactly that row.
C8_ScenarioWithLivePageGivesOneRow ==
    (pc = "done" /\ C8_ScenarioSite /\ remote_health[PageB] = Known(Response(200)))
        => pd_links = C8_ScenarioReport

\* the scenario ran to its end with /b live
C8_Witness ==
    /\ pc = "done"
    /\ C8_ScenarioSite
    /\ remote_health[PageB] = Known(Response(200))
    /\ pd_links = C8_ScenarioReport

\* C9: once the GET of a page has raised, the run is over: the process has
\* stopped where it was, no anchor map was returned (none of the link lists, the
\* hrefs or the broken links exist), no probe was issued and there is no report.
C9_PageFetchErrorEndsTheRun ==
    (\E page \in Pages : remote_content[page] = Known(FetchError)) =>
        /\ pc = "crashed"
        /\ ~ENABLED Next
        /\ url_map = <<>>
        /\ internal = <<>> /\ external = <<>> /\ hrefs = <<>>
        /\ b_links = <<>> /\ pd_links = <<>>
        /\ \A i \in 1..Len(requests_log) : requests_log[i][1] # "probe"

\* the second page fetch raised after the first page was fetched
C9_Witness ==
    /\ pc = "crashed"
    /\ Len(requests_log) = 3
    /\ \E page \in Pages :
          /\ remote_content[page].known
          /\ remote_content[page].value.ok
          /\ Len(remote_content[page].value.anchors) > 0

\* C10: with the domain name or the homepage URL missing from the arguments
\* the process never gets past the start: it exits with a message and a
\* non-zero status, and issues no request at all.
C10_MissingArgumentsAbortBeforeAnyStage ==
    Len(argv) < 3 =>
        /\ pc \in {"start", "exit"}
        /\ requests_log = <<>>
        /\ pc = "start" => ENABLED LoadSettings
        /\ pc = "exit" =>
              /\ exit_status # 0
              /\ exit_message # ""
              /\ ~ENABLED Next

\* the run with the homepage URL missing has exited
C10_Witness ==
    /\ pc = "exit"
    /\ Len(argv) = 2
    /\ exit_status = 1

\* the hrefs the process has requested in identify_broken_links, in order
ProbesIssued ==
    LET IsProbe(r) == r[1] = "probe"
        probes == SelectSeq(requests_log, IsProbe)
    IN  [i \in 1..Len(probes) |-> probes[i][2]]

\* the hrefs of the link inventory
InventoryHrefs ==
    { (internal \o external)[i][2] : i \in 1..Len(internal \o external) }

C11_ProbedOnceInOrder ==
    /\ ProbesIssued = SubSeq(hrefs, 1, probe_count)
    /\ probe_count <= Len(hrefs)
    /\ \A i, j \in 1..Len(ProbesIssued) : i # j => ProbesIssued[i] # ProbesIssued[j]
    /\ pc \in {"identify_broken_links", "done"} =>
          /\ Range(hrefs) = InventoryHrefs
          /\ \A i, j \in 1..Len(hrefs) :
                i < j => FirstPos(internal \o external, 2, hrefs[i])
                           < FirstPos(internal \o external, 2, hrefs[j])
    /\ pc = "done" => ProbesIssued = hrefs

\* C11: in the CLI pipeline the probes issued so far are always the first
\* hrefs of the first-seen-ordered unique hrefs of the inventory, each once
\* (no probe is retried, none is skipped after a failure); and when every probe
\* returns or raises, a run that starts probing reaches the matcher, having
\* probed every unique href of the inventory exactly once.
C11_EveryHrefProbedOnceThenMatched ==
    /\ []C11_ProbedOnceInOrder
    /\ (pc = "identify_broken_links") ~> (pc = "done")

\* a finished run whose first probe raised, whose second returned 404, both reported
C11_Witness ==
    /\ pc = "done"
    /\ Len(hrefs) = 2
    /\ ProbesIssued = hrefs
    /\ remote_health[hrefs[1]] = Known(Raised)
    /\ remote_health[hrefs[2]] = Known(Response(404))
    /\ Len(pd_links) = 2

\* how often x occurs in seq
Count(seq, x) == Cardinality({ i \in 1..Len(seq) : seq[i] = x })

\* C12: get_broken_links returns only when every call of _validate_url has
\* finished, and the list it returns holds each internal link as many times as
\* it has calls whose HEAD answered 404, and nothing else, whatever the
\* interleaving of the workers; no append happens after the return.
C12_ReturnsEvery404OnceAfterAllWorkers ==
    lc_pc = "returned" =>
        /\ \A i \in 1..Len(futures) : futures[i].state = "finished"
        /\ \A url \in Range(internal_links) \cup Range(lc_returned) :
              Count(lc_returned, url) =
                  Cardinality({ i \in 1..Len(futures) :
                                  /\ internal_links[i] = url
                                  /\ futures[i].outcome = Known(Response(404)) })
        /\ lc_broken_links = lc_returned

\* three links, all answering 404, appended out of submission order, one twice
C12_Witness ==
    /\ lc_pc = "returned"
    /\ internal_links = <<LcPost, LcAbout, LcPost>>
    /\ \A i \in 1..3 : futures[i].outcome = Known(Response(404))
    /\ lc_returned = <<LcAbout, LcPost, LcPost>>

\* the hrefs (second component) of a list of link records or report rows
HrefsOf(records) == { records[i][2] : i \in 1..Len(records) }

\* C13: the internal and external lists of get_all_links share no href; so in
\* the dashboard, which deduplicates and probes the two lists separately, no
\* href is probed twice and no href is in both broken-link reports.
C13_InternalAndExternalShareNoHref ==
    /\ HrefsOf(internal) \cap HrefsOf(external) = {}
    /\ Range(hrefs) \cap Range(external_links_filtered) = {}
    /\ \A i, j \in 1..Len(ProbesIssued) : i # j => ProbesIssued[i] # ProbesIssued[j]
    /\ HrefsOf(pd_links) \cap HrefsOf(data_external) = {}
    /\ pc = "shown" =>
          /\ Range(ProbesIssued) = HrefsOf(internal) \cup HrefsOf(external)
          /\ Len(ProbesIssued) = Len(hrefs) + Len(external_links_filtered)

\* the dashboard showed a broken internal and a broken external link, each
\* linked from both pages
C13_Witness ==
    /\ pc = "shown"
    /\ Len(internal) = 2 /\ Len(external) = 2
    /\ Len(ProbesIssued) = 2
    /\ Len(pd_links) = 1 /\ Len(data_external) = 1

====
